---- MODULE Spec2Model ----
(***************************************************************************)
(* Model of src/stt.py: the WakeWordTranscriber session controller.        *)
(*                                                                         *)
(* One run of main(): the fallback cascade of start_listening (OpenWakeWord*)
(* with custom models, then Porcupine, then voice activity detection only),*)
(* the main listening loop around recorder.text(), the callbacks the engine*)
(* invokes while it is live, and main's finally-clause shutdown.           *)
(*                                                                         *)
(* The external engine (RealtimeSTT.AudioToTextRecorder), the file system, *)
(* the import system and the user's Ctrl+C are the environment: every      *)
(* outcome they can produce is a nondeterministic choice of the action     *)
(* that meets them.  Console and log output is not modelled as state and   *)
(* is taken never to fail.                                                 *)
(***************************************************************************)
EXTENDS Naturals, Sequences, FiniteSets

VARIABLES
    pc,                 \* position of the main thread in main()/start_listening()
    model_files,        \* outcome of check_model_files():  "unchecked", "found", "missing"
    openwakeword,       \* outcome of check_dependencies(): "unchecked", "found", "missing"
    attempt,            \* per backend, outcome of try_initialize_recorder: "untried", "failed", "ok"
    recorder,           \* local variable `recorder` of start_listening
    self_recorder,      \* attribute self.recorder ("unset" while the attribute does not exist)
    use_wake_words,     \* self.use_wake_words
    is_transcribing,    \* self.is_transcribing
    wake_word_detected, \* self.wake_word_detected
    constructed,        \* backends for which an engine handle has been (even partly) constructed
    releases,           \* number of calls of self.recorder.shutdown()
    shutdownCalls,      \* number of calls of transcriber.shutdown()
    shutdown_error,     \* recorder.shutdown() raised and shutdown() logged it
    textCalls,          \* number of calls of self.recorder.text()
    sleeps,             \* number of completed time.sleep(1) backoffs
    finals,             \* number of "FINAL TRANSCRIPTION" notifications printed
    hist,               \* session history: callbacks handled and text() outcomes, in order
    callbackRaised,     \* a callback raised into the engine thread that invoked it
    interrupted,        \* the KeyboardInterrupt has been delivered
    slExit              \* how start_listening ended: "none", "returned", "KeyboardInterrupt"

vars == << pc, model_files, openwakeword, attempt, recorder, self_recorder,
           use_wake_words, is_transcribing, wake_word_detected, constructed,
           releases, shutdownCalls, shutdown_error, textCalls, sleeps, finals,
           hist, callbackRaised, interrupted, slExit >>

(***************************************************************************)
(* Bounds of the model.                                                    *)
(***************************************************************************)
MaxHist == 4        \* callbacks handled plus text() outcomes per run
MaxShutdownCalls == 2   \* calls of shutdown() in the repeated-shutdown specification

(***************************************************************************)
(* Values.                                                                 *)
(***************************************************************************)
OWW == "oww"
PORCUPINE == "pvporcupine"
VAD == "vad"
Backends == {OWW, PORCUPINE, VAD}
CandidateOrder == << OWW, PORCUPINE, VAD >>
None == "None"
Unset == "unset"

InitPcs == {"check_model_files", "check_dependencies", "try_oww",
            "try_porcupine", "try_vad", "check_recorder"}
LoopPcs == {"loop", "backoff"}

\* The chunk payloads on_recorded_chunk can be handed: a bytes object, or a
\* value len() is not defined for.
Chunks == {"bytes", "unsized"}
\* The texts the realtime callbacks can be handed.
Texts == {"", "hello"}

Count(s, x) == Cardinality({i \in 1..Len(s) : s[i] = x})

TextOutcomes == {"Final", "Empty", "Error"}

\* What recorder.text() can return: nothing new, blanks only, or a text.
TextReturns == {"", " ", "hello world"}
\* str.strip() on these.
Strip(t) == IF t = " " THEN "" ELSE t
\* `if text and text.strip():`
Printed(t) == t # "" /\ Strip(t) # ""
\* What a text() call did, as hist records it: raised an Exception, returned
\* a text without content, or returned a text with content.
Returned(raised, t) ==
    IF raised THEN "Error" ELSE IF t \in {"", " "} THEN "Empty" ELSE "Final"
CountText(s) == Cardinality({i \in 1..Len(s) : s[i] \in TextOutcomes})

(***************************************************************************)
(* Initial state: WakeWordTranscriber.__init__ and the start of main.      *)
(***************************************************************************)
Init ==
    /\ pc = "check_model_files"
    /\ model_files = "unchecked"
    /\ openwakeword = "unchecked"
    /\ attempt = [b \in Backends |-> "untried"]
    /\ recorder = None
    /\ self_recorder = Unset
    /\ use_wake_words = TRUE
    /\ is_transcribing = FALSE
    /\ wake_word_detected = FALSE
    /\ constructed = {}
    /\ releases = 0
    /\ shutdownCalls = 0
    /\ shutdown_error = FALSE
    /\ textCalls = 0
    /\ sleeps = 0
    /\ finals = 0
    /\ hist = << >>
    /\ callbackRaised = FALSE
    /\ interrupted = FALSE
    /\ slExit = "none"

flagVars == << use_wake_words, is_transcribing, wake_word_detected >>
sessionVars == << hist, callbackRaised, textCalls, sleeps, finals >>
probeVars == << model_files, openwakeword >>
shutdownVars == << releases, shutdownCalls, shutdown_error >>

\* Fault: main without its finally clause, so that a KeyboardInterrupt escaping
\* start_listening ends the process before shutdown() is called.
ExitStartListening_NoFinally(how) ==
    /\ slExit' = how
    /\ pc' = IF how = "KeyboardInterrupt" THEN "done" ELSE "main_finally"

(***************************************************************************)
(* main's try/except around start_listening: whether start_listening       *)
(* returns or lets a KeyboardInterrupt escape, control reaches the finally *)
(* clause.                                                                 *)
(***************************************************************************)
ExitStartListening(how) ==
    /\ slExit' = how
    /\ pc' = "main_finally"


(***************************************************************************)
(* The capability probes.  `check_model_files() and check_dependencies()`  *)
(* short-circuits: the import is only tried when the model files exist.    *)
(***************************************************************************)
\* Fault: the result of check_model_files() is not looked at.
CheckModelFiles_Ignored ==
    /\ pc = "check_model_files"
    /\ \E present \in BOOLEAN :
          /\ model_files' = IF present THEN "found" ELSE "missing"
          /\ pc' = "check_dependencies"
    /\ UNCHANGED << openwakeword, attempt, recorder, self_recorder, flagVars,
                    constructed, shutdownVars, sessionVars, interrupted, slExit >>

CheckModelFiles ==
    /\ pc = "check_model_files"
    /\ \E present \in BOOLEAN :
          /\ model_files' = IF present THEN "found" ELSE "missing"
          /\ pc' = IF present THEN "check_dependencies" ELSE "try_porcupine"
    /\ UNCHANGED << openwakeword, attempt, recorder, self_recorder, flagVars,
                    constructed, shutdownVars, sessionVars, interrupted, slExit >>

CheckDependencies ==
    /\ pc = "check_dependencies"
    /\ \E importable \in BOOLEAN :
          /\ openwakeword' = IF importable THEN "found" ELSE "missing"
          /\ pc' = IF importable THEN "try_oww" ELSE "try_porcupine"
    /\ UNCHANGED << model_files, attempt, recorder, self_recorder, flagVars,
                    constructed, shutdownVars, sessionVars, interrupted, slExit >>

(***************************************************************************)
(* try_initialize_recorder(config, config_name): AudioToTextRecorder       *)
(* either returns a handle, which is returned, or raises an Exception,     *)
(* which is caught and turned into None.                                   *)
(***************************************************************************)
TryInitializeRecorder(b, ok) ==
    /\ recorder' = IF ok THEN b ELSE None
    /\ attempt' = [attempt EXCEPT ![b] = IF ok THEN "ok" ELSE "failed"]
    /\ constructed' = IF ok THEN constructed \cup {b} ELSE constructed

\* 1. OpenWakeWord with custom models (reached only when both probes passed).
TryOww ==
    /\ pc = "try_oww"
    /\ \E ok \in BOOLEAN : TryInitializeRecorder(OWW, ok)
    /\ pc' = "try_porcupine"
    /\ UNCHANGED << probeVars, self_recorder, flagVars, shutdownVars,
                    sessionVars, interrupted, slExit >>

\* Fault: step 2 without its `if not recorder` guard.
TryPorcupine_Unguarded ==
    /\ pc = "try_porcupine"
    /\ \E ok \in BOOLEAN : TryInitializeRecorder(PORCUPINE, ok)
    /\ pc' = "try_vad"
    /\ UNCHANGED << probeVars, self_recorder, flagVars, shutdownVars,
                    sessionVars, interrupted, slExit >>

\* 2. Porcupine with built-in wake words, `if not recorder`.
TryPorcupine ==
    /\ pc = "try_porcupine"
    /\ IF recorder = None
          THEN \E ok \in BOOLEAN : TryInitializeRecorder(PORCUPINE, ok)
          ELSE UNCHANGED << recorder, attempt, constructed >>
    /\ pc' = "try_vad"
    /\ UNCHANGED << probeVars, self_recorder, flagVars, shutdownVars,
                    sessionVars, interrupted, slExit >>

\* Fault: step 3 does not clear use_wake_words.
TryVad_KeepsFlag ==
    /\ pc = "try_vad"
    /\ IF recorder = None
          THEN \E ok \in BOOLEAN : TryInitializeRecorder(VAD, ok)
          ELSE UNCHANGED << recorder, attempt, constructed >>
    /\ pc' = "check_recorder"
    /\ UNCHANGED << probeVars, self_recorder, flagVars,
                    shutdownVars, sessionVars, interrupted, slExit >>

\* Fault: step 3 without its `if not recorder` guard.
TryVad_Unguarded ==
    /\ pc = "try_vad"
    /\ \E ok \in BOOLEAN : TryInitializeRecorder(VAD, ok)
    /\ use_wake_words' = FALSE
    /\ pc' = "check_recorder"
    /\ UNCHANGED << probeVars, self_recorder, is_transcribing, wake_word_detected,
                    shutdownVars, sessionVars, interrupted, slExit >>

\* 3. No wake words, `if not recorder`; use_wake_words is cleared whether or
\*    not the construction succeeds.
TryVad ==
    /\ pc = "try_vad"
    /\ IF recorder = None
          THEN /\ \E ok \in BOOLEAN : TryInitializeRecorder(VAD, ok)
               /\ use_wake_words' = FALSE
          ELSE UNCHANGED << recorder, attempt, constructed, use_wake_words >>
    /\ pc' = "check_recorder"
    /\ UNCHANGED << probeVars, self_recorder, is_transcribing, wake_word_detected,
                    shutdownVars, sessionVars, interrupted, slExit >>

\* Fault: the `if not recorder: return` check left out.
CheckRecorder_NoReturn ==
    /\ pc = "check_recorder"
    /\ self_recorder' = recorder
    /\ pc' = "ready"
    /\ UNCHANGED << probeVars, attempt, recorder, flagVars, constructed,
                    shutdownVars, sessionVars, interrupted, slExit >>

\* `if not recorder: return`, else `self.recorder = recorder`.
CheckRecorder ==
    /\ pc = "check_recorder"
    /\ IF recorder = None
          THEN /\ ExitStartListening("returned")
               /\ UNCHANGED self_recorder
          ELSE /\ self_recorder' = recorder
               /\ pc' = "ready"
               /\ UNCHANGED slExit
    /\ UNCHANGED << probeVars, attempt, recorder, flagVars, constructed,
                    shutdownVars, sessionVars, interrupted >>

\* The "SYSTEM READY" banner, inside the outer try, before the loop.
SystemReady ==
    /\ pc = "ready"
    /\ pc' = "loop"
    /\ UNCHANGED << probeVars, attempt, recorder, self_recorder, flagVars,
                    constructed, shutdownVars, sessionVars, interrupted, slExit >>

(***************************************************************************)
(* Ctrl+C before the main loop.  KeyboardInterrupt is not an Exception:    *)
(* neither check_dependencies (except ImportError), nor                    *)
(* try_initialize_recorder (except Exception), nor the outer try of        *)
(* start_listening (except Exception) catches it, so it escapes to main.   *)
(* When it arrives while AudioToTextRecorder is being constructed, the     *)
(* engine may or may not already hold its resources.                       *)
(***************************************************************************)
Constructing ==
    CASE pc = "try_oww" -> OWW
      [] pc = "try_porcupine" /\ recorder = None -> PORCUPINE
      [] pc = "try_vad" /\ recorder = None -> VAD
      [] OTHER -> None

KeyboardInterruptInInit ==
    /\ pc \in InitPcs \cup {"ready"}
    /\ ~interrupted
    /\ interrupted' = TRUE
    /\ \E partial \in BOOLEAN :
          constructed' = IF partial /\ Constructing # None
                            THEN constructed \cup {Constructing}
                            ELSE constructed
    /\ ExitStartListening("KeyboardInterrupt")
    /\ UNCHANGED << probeVars, attempt, recorder, self_recorder, flagVars,
                    shutdownVars, sessionVars >>

(***************************************************************************)
(* The main listening loop, one iteration: self.recorder.text() returns a  *)
(* text or raises an Exception.  Only a text with non-blank content is     *)
(* printed as the final transcription; an Exception is logged and leads to *)
(* the backoff sleep.                                                      *)
(***************************************************************************)
\* Fault: the handler retries at once, without time.sleep(1).
RecorderText_NoBackoff ==
    /\ pc = "loop"
    /\ Len(hist) < MaxHist
    /\ textCalls' = textCalls + 1
    /\ \E raised \in BOOLEAN, text \in TextReturns :
          /\ hist' = Append(hist, Returned(raised, text))
          /\ finals' = IF ~raised /\ Printed(text) THEN finals + 1 ELSE finals
          /\ pc' = "loop"
    /\ UNCHANGED << probeVars, attempt, recorder, self_recorder, flagVars,
                    constructed, shutdownVars, sleeps, callbackRaised,
                    interrupted, slExit >>

\* Fault: the loop gives up at the second error.
RecorderText_GivesUp ==
    /\ pc = "loop"
    /\ Len(hist) < MaxHist
    /\ textCalls' = textCalls + 1
    /\ \E raised \in BOOLEAN, text \in TextReturns :
          /\ hist' = Append(hist, Returned(raised, text))
          /\ finals' = IF ~raised /\ Printed(text) THEN finals + 1 ELSE finals
          /\ IF raised /\ Count(hist, "Error") >= 1
                THEN ExitStartListening("returned")
                ELSE /\ pc' = IF raised THEN "backoff" ELSE "loop"
                     /\ UNCHANGED slExit
    /\ UNCHANGED << probeVars, attempt, recorder, self_recorder, flagVars,
                    constructed, shutdownVars, sleeps, callbackRaised,
                    interrupted >>

\* Fault: the test is `if text:`, so a text of blanks is printed as final.
RecorderText_PrintsBlank ==
    /\ pc = "loop"
    /\ Len(hist) < MaxHist
    /\ textCalls' = textCalls + 1
    /\ \E raised \in BOOLEAN, text \in TextReturns :
          /\ hist' = Append(hist, Returned(raised, text))
          /\ finals' = IF ~raised /\ text # "" THEN finals + 1 ELSE finals
          /\ pc' = IF raised THEN "backoff" ELSE "loop"
    /\ UNCHANGED << probeVars, attempt, recorder, self_recorder, flagVars,
                    constructed, shutdownVars, sleeps, callbackRaised,
                    interrupted, slExit >>

\* Fault: the loop clears wake_word_detected when it prints a final text.
RecorderText_Rearms ==
    /\ pc = "loop"
    /\ Len(hist) < MaxHist
    /\ textCalls' = textCalls + 1
    /\ \E raised \in BOOLEAN, text \in TextReturns :
          /\ hist' = Append(hist, Returned(raised, text))
          /\ finals' = IF ~raised /\ Printed(text) THEN finals + 1 ELSE finals
          /\ wake_word_detected' =
                 IF ~raised /\ Printed(text) THEN FALSE ELSE wake_word_detected
          /\ pc' = IF raised THEN "backoff" ELSE "loop"
    /\ UNCHANGED << probeVars, attempt, recorder, self_recorder, use_wake_words, is_transcribing,
                    constructed, shutdownVars, sleeps, callbackRaised,
                    interrupted, slExit >>

RecorderText ==
    /\ pc = "loop"
    /\ Len(hist) < MaxHist
    /\ textCalls' = textCalls + 1
    /\ \E raised \in BOOLEAN, text \in TextReturns :
          /\ hist' = Append(hist, Returned(raised, text))
          /\ finals' = IF ~raised /\ Printed(text) THEN finals + 1 ELSE finals
          /\ pc' = IF raised THEN "backoff" ELSE "loop"
    /\ UNCHANGED << probeVars, attempt, recorder, self_recorder, flagVars,
                    constructed, shutdownVars, sleeps, callbackRaised,
                    interrupted, slExit >>

\* time.sleep(1) in the `except Exception` handler runs to its end.
BackoffSleep ==
    /\ pc = "backoff"
    /\ sleeps' = sleeps + 1
    /\ pc' = "loop"
    /\ UNCHANGED << probeVars, attempt, recorder, self_recorder, flagVars,
                    constructed, shutdownVars, hist, callbackRaised,
                    textCalls, finals, interrupted, slExit >>

\* Fault: the loop without `except KeyboardInterrupt: break`.
KeyboardInterruptInText_Escapes ==
    /\ pc = "loop"
    /\ ~interrupted
    /\ interrupted' = TRUE
    /\ textCalls' = textCalls + 1
    /\ ExitStartListening("KeyboardInterrupt")
    /\ UNCHANGED << probeVars, attempt, recorder, self_recorder, flagVars,
                    constructed, shutdownVars, hist, callbackRaised,
                    sleeps, finals >>

\* Ctrl+C while the loop is inside its try body (blocked in text()):
\* `except KeyboardInterrupt: break`, and start_listening returns.
KeyboardInterruptInText ==
    /\ pc = "loop"
    /\ ~interrupted
    /\ interrupted' = TRUE
    /\ textCalls' = textCalls + 1
    /\ ExitStartListening("returned")
    /\ UNCHANGED << probeVars, attempt, recorder, self_recorder, flagVars,
                    constructed, shutdownVars, hist, callbackRaised,
                    sleeps, finals >>

\* Ctrl+C while the `except Exception` handler runs (its sleep): no handler
\* of start_listening catches it, it escapes to main.
KeyboardInterruptInBackoff ==
    /\ pc = "backoff"
    /\ ~interrupted
    /\ interrupted' = TRUE
    /\ ExitStartListening("KeyboardInterrupt")
    /\ UNCHANGED << probeVars, attempt, recorder, self_recorder, flagVars,
                    constructed, shutdownVars, sessionVars >>

(***************************************************************************)
(* shutdown(): `if hasattr(self, 'recorder') and self.recorder` guards the *)
(* release; an Exception of recorder.shutdown() is logged and swallowed.   *)
(* self.recorder is left as it is.                                         *)
(***************************************************************************)
ShutdownBody ==
    /\ shutdownCalls' = shutdownCalls + 1
    /\ IF self_recorder # Unset
          THEN /\ releases' = releases + 1
               /\ \E raises \in BOOLEAN : shutdown_error' = raises
          ELSE UNCHANGED << releases, shutdown_error >>
    /\ UNCHANGED << probeVars, attempt, recorder, self_recorder, flagVars,
                    constructed, sessionVars, interrupted, slExit >>

\* Fault: shutdown() without its try/except, so that an error of
\* recorder.shutdown() leaves main before its last statement.
Shutdown_Propagates ==
    /\ pc = "main_finally"
    /\ ShutdownBody
    /\ pc' = IF shutdown_error' THEN "aborted" ELSE "done"

\* main's `finally: transcriber.shutdown()`, then "Goodbye!".
Shutdown ==
    /\ pc = "main_finally"
    /\ ShutdownBody
    /\ pc' = "done"

\* A caller of the class calling shutdown() once more after main's call.
ShutdownAgain ==
    /\ pc = "done"
    /\ shutdownCalls < MaxShutdownCalls
    /\ ShutdownBody
    /\ pc' = "done"

(***************************************************************************)
(* The callbacks.  The engine invokes them from the moment its handle      *)
(* exists until it is released.  get_base_config binds the ten callbacks   *)
(* every backend has; get_porcupine_config and get_oww_config add the four *)
(* wake word callbacks.                                                    *)
(***************************************************************************)
EngineLive == recorder # None /\ releases = 0
WakeCallbacksBound == recorder \in {OWW, PORCUPINE}

eventFrame == << pc, probeVars, attempt, recorder, self_recorder, constructed,
                 shutdownVars, textCalls, sleeps, finals, interrupted, slExit >>

on_recording_start ==
    /\ EngineLive
    /\ Len(hist) < MaxHist
    /\ is_transcribing' = TRUE
    /\ hist' = Append(hist, "RecordingStarted")
    /\ UNCHANGED << eventFrame, use_wake_words, wake_word_detected,
                    callbackRaised >>

on_recording_stop ==
    /\ EngineLive
    /\ Len(hist) < MaxHist
    /\ is_transcribing' = FALSE
    /\ hist' = Append(hist, "RecordingStopped")
    /\ UNCHANGED << eventFrame, use_wake_words, wake_word_detected,
                    callbackRaised >>

on_wakeword_detected ==
    /\ EngineLive
    /\ WakeCallbacksBound
    /\ Len(hist) < MaxHist
    /\ wake_word_detected' = TRUE
    /\ hist' = Append(hist, "WakeWordDetected")
    /\ UNCHANGED << eventFrame, use_wake_words, is_transcribing,
                    callbackRaised >>

\* Fault: the timeout callback also ends the recording.
on_wakeword_timeout_ResetsAll ==
    /\ EngineLive
    /\ WakeCallbacksBound
    /\ Len(hist) < MaxHist
    /\ wake_word_detected' = FALSE
    /\ is_transcribing' = FALSE
    /\ hist' = Append(hist, "WakeWordTimeout")
    /\ UNCHANGED << eventFrame, use_wake_words, callbackRaised >>

on_wakeword_timeout ==
    /\ EngineLive
    /\ WakeCallbacksBound
    /\ Len(hist) < MaxHist
    /\ wake_word_detected' = FALSE
    /\ hist' = Append(hist, "WakeWordTimeout")
    /\ UNCHANGED << eventFrame, use_wake_words, is_transcribing,
                    callbackRaised >>

\* The callbacks that only print and log.
Informational(raises) ==
    /\ EngineLive
    /\ Len(hist) < MaxHist
    /\ hist' = Append(hist, "Informational")
    /\ callbackRaised' = (callbackRaised \/ raises)
    /\ UNCHANGED << eventFrame, flagVars >>

\* Fault: the transcription callback marks the session as transcribing.
on_transcription_start_SetsFlag ==
    /\ EngineLive
    /\ Len(hist) < MaxHist
    /\ hist' = Append(hist, "Informational")
    /\ is_transcribing' = TRUE
    /\ UNCHANGED << eventFrame, use_wake_words, wake_word_detected, callbackRaised >>

on_transcription_start == Informational(FALSE)

\* `if text.strip():` prints the text, a blank text prints nothing.
on_realtime_transcription_update == \E text \in Texts : Informational(FALSE)

on_realtime_transcription_stabilized == \E text \in Texts : Informational(FALSE)

\* len(chunk) raises TypeError for a payload without a length; nothing in
\* the callback catches it.
on_recorded_chunk == \E chunk \in Chunks : Informational(chunk = "unsized")

on_vad_start == Informational(FALSE)

on_vad_stop == Informational(FALSE)

on_vad_detect_start == Informational(FALSE)

on_vad_detect_stop == Informational(FALSE)

on_wakeword_detection_start == WakeCallbacksBound /\ Informational(FALSE)

on_wakeword_detection_end == WakeCallbacksBound /\ Informational(FALSE)

(***************************************************************************)
(* The specifications.                                                     *)
(***************************************************************************)
Next ==
    \/ CheckModelFiles
    \/ CheckDependencies
    \/ TryOww
    \/ TryPorcupine
    \/ TryVad
    \/ CheckRecorder
    \/ SystemReady
    \/ KeyboardInterruptInInit
    \/ RecorderText
    \/ BackoffSleep
    \/ KeyboardInterruptInText
    \/ KeyboardInterruptInBackoff
    \/ Shutdown
    \/ on_recording_start
    \/ on_recording_stop
    \/ on_wakeword_detected
    \/ on_wakeword_timeout
    \/ on_transcription_start
    \/ on_realtime_transcription_update
    \/ on_realtime_transcription_stabilized
    \/ on_recorded_chunk
    \/ on_vad_start
    \/ on_vad_stop
    \/ on_vad_detect_start
    \/ on_vad_detect_stop
    \/ on_wakeword_detection_start
    \/ on_wakeword_detection_end

\* One run of main().
Spec == Init /\ [][Next]_vars

\* One run of main() followed by further calls of shutdown().
NextRepeated == Next \/ ShutdownAgain

SpecRepeated == Init /\ [][NextRepeated]_vars

(***************************************************************************)
(* Vocabulary of the properties.                                           *)
(***************************************************************************)
\* A candidate's capability probe: only OpenWakeWord has one.
ProbePassed(b) ==
    b = OWW => (model_files = "found" /\ openwakeword = "found")

\* The candidate passed its probe and its construction succeeded.
Usable(b) == ProbePassed(b) /\ attempt[b] = "ok"

Position(b) == CHOOSE i \in 1..Len(CandidateOrder) : CandidateOrder[i] = b

\* No candidate earlier than b in the order is usable.
FirstUsable(b) ==
    /\ Usable(b)
    /\ \A c \in Backends : Position(c) < Position(b) => ~Usable(c)

\* The cascade ran to its end without being interrupted.
InitEnded == self_recorder # Unset \/ slExit = "returned"

\* Every candidate was skipped or failed its construction.
Exhausted ==
    /\ attempt[OWW] = "failed" \/ model_files = "missing" \/ openwakeword = "missing"
    /\ attempt[PORCUPINE] = "failed"
    /\ attempt[VAD] = "failed"

\* The rest states of the session, in terms of the flags.
ArmedForWakeWord == use_wake_words /\ ~is_transcribing /\ ~wake_word_detected
Idle == ~use_wake_words /\ ~is_transcribing /\ ~wake_word_detected

IsTextOutcome(x) == x \in TextOutcomes
\* The outcomes of the text() calls so far, in order.
TextHistory == SelectSeq(hist, IsTextOutcome)

\* n errors, then a text.
ErrorsThenText(n) == [i \in 1..(n + 1) |-> IF i <= n THEN "Error" ELSE "Final"]

\* The engine handles that have been released.
Released == IF releases > 0 THEN {self_recorder} ELSE {}

(***************************************************************************)
(* C1.  Whatever the probes and the constructions answer, when at least    *)
(* one candidate passes its probe and constructs, the cascade ends holding *)
(* the engine of the first such candidate in the order OpenWakeWord,       *)
(* Porcupine, voice activity only, and never a later one.                  *)
(***************************************************************************)
C1_FirstUsableCandidateWins ==
    /\ self_recorder # Unset => FirstUsable(self_recorder)
    /\ (InitEnded /\ \E b \in Backends : Usable(b)) =>
           (self_recorder \in Backends /\ FirstUsable(self_recorder))

C1_Witness ==
    /\ pc = "loop"
    /\ self_recorder = PORCUPINE
    /\ attempt[OWW] = "failed"

(***************************************************************************)
(* C2.  When every candidate is skipped or fails, start_listening returns  *)
(* to its caller without a session: self.recorder is never set, no handle  *)
(* is held, the main loop is never entered, text() is never called, and    *)
(* the shutdown that follows releases nothing.                             *)
(***************************************************************************)
C2_ExhaustedCascadeHoldsNothing ==
    Exhausted =>
        /\ self_recorder = Unset
        /\ constructed = {}
        /\ pc \in {"check_recorder", "main_finally", "done"}
        /\ textCalls = 0
        /\ releases = 0
        /\ (pc # "check_recorder" /\ ~interrupted) => slExit = "returned"
        /\ pc = "done" => shutdownCalls = 1

C2_Witness ==
    /\ Exhausted
    /\ pc = "done"
    /\ slExit = "returned"
    /\ shutdownCalls = 1
    /\ releases = 0

(***************************************************************************)
(* C3.  A complete recording cycle brings the session back to its rest     *)
(* state with one transcript counted: from ArmedForWakeWord, wake word     *)
(* detected, recording started, recording stopped, final text ends in      *)
(* ArmedForWakeWord; from Idle, recording started, recording stopped,      *)
(* final text ends in Idle.                                                *)
(***************************************************************************)
C3_CycleReturnsToRest ==
    /\ ( /\ recorder \in {OWW, PORCUPINE}
         /\ hist = << "WakeWordDetected", "RecordingStarted",
                      "RecordingStopped", "Final" >> )
       => (ArmedForWakeWord /\ finals = 1)
    /\ ( /\ recorder = VAD
         /\ hist = << "RecordingStarted", "RecordingStopped", "Final" >> )
       => (Idle /\ finals = 1)

(***************************************************************************)
(* C4.  As claimed: a wake word event arriving while the session is        *)
(* recording speech leaves is_transcribing and wake_word_detected as they  *)
(* were, and does not raise.                                               *)
(***************************************************************************)
WakeEventWhileRecordingIsNoOp ==
    ( /\ is_transcribing
      /\ \/ hist' = Append(hist, "WakeWordTimeout")
         \/ hist' = Append(hist, "WakeWordDetected") )
    => /\ is_transcribing' = is_transcribing
       /\ wake_word_detected' = wake_word_detected
       /\ callbackRaised' = callbackRaised

EventSetsOnlyItsFlag ==
    /\ hist' = Append(hist, "WakeWordDetected") =>
         /\ wake_word_detected'
         /\ UNCHANGED << is_transcribing, use_wake_words, callbackRaised, pc >>
    /\ hist' = Append(hist, "WakeWordTimeout") =>
         /\ ~wake_word_detected'
         /\ UNCHANGED << is_transcribing, use_wake_words, callbackRaised, pc >>
    /\ hist' = Append(hist, "RecordingStarted") =>
         /\ is_transcribing'
         /\ UNCHANGED << wake_word_detected, use_wake_words, callbackRaised, pc >>
    /\ hist' = Append(hist, "RecordingStopped") =>
         /\ ~is_transcribing'
         /\ UNCHANGED << wake_word_detected, use_wake_words, callbackRaised, pc >>

C5_RetryWithBackoff ==
    /\ finals = Count(hist, "Final")
    /\ sleeps <= Count(hist, "Error")
    /\ pc = "loop" => sleeps = Count(hist, "Error")
    /\ pc = "backoff" =>
           /\ sleeps + 1 = Count(hist, "Error")
           /\ TextHistory[Len(TextHistory)] = "Error"
    /\ \A n \in 0..MaxHist :
           TextHistory = ErrorsThenText(n) => (finals = 1 /\ sleeps = n)

C5_Witness ==
    /\ TextHistory = ErrorsThenText(2)
    /\ finals = 1
    /\ sleeps = 2
    /\ pc = "loop"

(***************************************************************************)
(* C6.  The loop never gives up on its own: while it runs, a step either   *)
(* keeps it running, with nothing shut down or released, or is the         *)
(* delivery of the KeyboardInterrupt.                                      *)
(***************************************************************************)
LoopStepKeepsRunning ==
    pc \in LoopPcs =>
        \/ /\ pc' \in LoopPcs
           /\ releases' = 0
           /\ shutdownCalls' = 0
           /\ slExit' = "none"
        \/ ~interrupted /\ interrupted'

C6_LoopNeverGivesUp == [][LoopStepKeepsRunning]_vars

\* Three errors in a row, and the loop is about to call text() again.
C6_Witness ==
    /\ pc = "loop"
    /\ TextHistory = << "Error", "Error", "Error" >>
    /\ sleeps = 3
    /\ releases = 0

(***************************************************************************)
(* C7.  A KeyboardInterrupt while the loop is blocked in text() makes      *)
(* start_listening return without raising; shutdown then releases the      *)
(* engine handle exactly once, and text() is not called again.             *)
(***************************************************************************)
\* The last text() call never returned: it was interrupted.
InterruptedInText == textCalls > Len(TextHistory)

C7_CancelInTextReturnsAndReleasesOnce ==
    InterruptedInText =>
        /\ interrupted
        /\ slExit = "returned"
        /\ textCalls = Len(TextHistory) + 1
        /\ pc \in {"main_finally", "done"}
        /\ pc = "main_finally" => (releases = 0 /\ shutdownCalls = 0)
        /\ pc = "done" => (releases = 1 /\ shutdownCalls = 1)

C7_Witness ==
    /\ InterruptedInText
    /\ pc = "done"
    /\ slExit = "returned"
    /\ releases = 1
    /\ Len(TextHistory) >= 1

(***************************************************************************)
(* C8.  A cancellation arriving at any step of the cascade, also after a   *)
(* handle was constructed and before it was stored, still has every        *)
(* constructed handle released, with exactly one shutdown call.            *)
(***************************************************************************)
\* The handles AudioToTextRecorder returned to try_initialize_recorder.
ConstructedHandles == {b \in Backends : attempt[b] = "ok"}

C8_CancelDuringInitReleasesHandles ==
    (pc = "done" /\ interrupted /\ self_recorder = Unset) =>
        /\ shutdownCalls = 1
        /\ ConstructedHandles \subseteq Released

(***************************************************************************)
(* C9.  Once a session is established, every way out of the run leads to   *)
(* exactly one shutdown call and exactly one release of the engine handle: *)
(* none before main's finally clause, one after it, never two.             *)
(***************************************************************************)
C9_ShutdownExactlyOnce ==
    /\ shutdownCalls <= 1
    /\ releases <= 1
    /\ pc # "done" => (shutdownCalls = 0 /\ releases = 0)
    /\ (self_recorder # Unset /\ slExit # "none") => pc \in {"main_finally", "done"}
    /\ (self_recorder # Unset /\ pc = "done") => (shutdownCalls = 1 /\ releases = 1)

\* The interrupt came during the backoff and escaped start_listening.
C9_Witness ==
    /\ pc = "done"
    /\ self_recorder # Unset
    /\ slExit = "KeyboardInterrupt"
    /\ sleeps < Count(hist, "Error")
    /\ shutdownCalls = 1
    /\ releases = 1

(***************************************************************************)
(* C10.  shutdown is idempotent: a second call on a session already shut   *)
(* down performs no further release of the engine handle.                  *)
(***************************************************************************)
C10_SecondShutdownReleasesNothing ==
    shutdownCalls >= 2 => releases <= 1

(***************************************************************************)
(* C11.  use_wake_words is fixed by the outcome of the cascade: from the   *)
(* moment the engine is stored it is true exactly when that engine was     *)
(* built with a wake word backend, false exactly when it is the voice      *)
(* activity only engine, and no later step changes it.                     *)
(***************************************************************************)
WakeBackends == {OWW, PORCUPINE}

UseWakeWordsStep ==
    /\ self_recorder # Unset => use_wake_words' = use_wake_words
    /\ self_recorder' # Unset =>
           /\ use_wake_words' <=> self_recorder' \in WakeBackends
           /\ ~use_wake_words' <=> self_recorder' = VAD

C11_UseWakeWordsFixedByCascade == [][UseWakeWordsStep]_vars

\* The voice activity only engine, after callbacks and loop steps and shutdown.
C11_Witness ==
    /\ self_recorder = VAD
    /\ ~use_wake_words
    /\ Len(hist) >= 2
    /\ pc = "done"

(***************************************************************************)
(* C12.  At most one engine handle exists at any moment and at most one    *)
(* session is established: at most one construction of the cascade         *)
(* succeeds, and a failed construction leaves no handle behind.            *)
(***************************************************************************)
C12_AtMostOneHandle ==
    /\ Cardinality(constructed) <= 1
    /\ Cardinality(ConstructedHandles) <= 1
    /\ ConstructedHandles \subseteq constructed
    /\ \A b \in Backends : attempt[b] = "failed" => b \notin constructed
    /\ recorder # None => ConstructedHandles = {recorder}
    /\ self_recorder # Unset => self_recorder = recorder

\* Two constructions failed, the third is the one handle.
C12_Witness ==
    /\ attempt[OWW] = "failed"
    /\ attempt[PORCUPINE] = "failed"
    /\ constructed = {VAD}
    /\ self_recorder = VAD

(***************************************************************************)
(* C13.  An error of recorder.shutdown() is absorbed: shutdown() does not  *)
(* raise, nothing propagates out of main, and main still reaches its last  *)
(* statement.                                                              *)
(***************************************************************************)
C13_ShutdownErrorAbsorbed ==
    shutdown_error =>
        /\ pc = "done"
        /\ shutdownCalls = 1
        /\ releases = 1

C13_Witness ==
    /\ shutdown_error
    /\ pc = "done"
    /\ slExit = "returned"

(***************************************************************************)
(* C14.  Dispatching a lifecycle event never raises: a failure of a        *)
(* callback is caught inside the dispatch and never reaches the engine     *)
(* that delivered the event.                                               *)
(***************************************************************************)
C14_DispatchNeverRaises == ~callbackRaised

(***************************************************************************)
(* C15.  The cascade stops at the first successful construction: a         *)
(* construction is only attempted while no construction has succeeded, on  *)
(* a candidate not attempted before, after every earlier candidate failed  *)
(* or was skipped.                                                         *)
(***************************************************************************)
Skipped(c) == c = OWW /\ attempt[c] = "untried" /\ ~ProbePassed(c)

ConstructionStep ==
    attempt' # attempt =>
        /\ \A c \in Backends : attempt[c] # "ok"
        /\ recorder = None
        /\ \E b \in Backends :
              /\ attempt[b] = "untried"
              /\ attempt'[b] \in {"ok", "failed"}
              /\ \A c \in Backends \ {b} : attempt'[c] = attempt[c]
              /\ \A c \in Backends :
                    Position(c) < Position(b) => (attempt[c] = "failed" \/ Skipped(c))

C15_CascadeStopsAtFirstSuccess == [][ConstructionStep]_vars

\* The first candidate constructed; the other two were never attempted.
C15_Witness ==
    /\ attempt[OWW] = "ok"
    /\ attempt[PORCUPINE] = "untried"
    /\ attempt[VAD] = "untried"
    /\ pc = "loop"

(***************************************************************************)
(* C16.  A candidate whose probe fails is skipped and the cascade goes on: *)
(* with the model files missing or openwakeword not importable, no         *)
(* construction with the OpenWakeWord configuration is attempted, and      *)
(* Porcupine is attempted next.                                            *)
(***************************************************************************)
ProbeFailed == model_files = "missing" \/ openwakeword = "missing"

PastPorcupineStep ==
    \/ pc \in {"try_vad", "check_recorder", "ready", "loop", "backoff"}
    \/ slExit = "returned"
    \/ self_recorder # Unset

C16_FailedProbeSkipsCandidate ==
    ProbeFailed =>
        /\ attempt[OWW] = "untried"
        /\ OWW \notin constructed
        /\ recorder # OWW
        /\ model_files = "missing" => openwakeword = "unchecked"
        /\ PastPorcupineStep => attempt[PORCUPINE] \in {"ok", "failed"}

\* The import failed, and Porcupine became the engine.
C16_Witness ==
    /\ model_files = "found"
    /\ openwakeword = "missing"
    /\ attempt[OWW] = "untried"
    /\ self_recorder = PORCUPINE

(***************************************************************************)
(* C17.  The informational events (realtime update and stabilized, chunk   *)
(* captured, the four voice activity events, the two wake word listening   *)
(* events, transcription started) never change is_transcribing,            *)
(* wake_word_detected or use_wake_words, in whatever state they arrive.    *)
(***************************************************************************)
InformationalStep ==
    hist' = Append(hist, "Informational") =>
        /\ is_transcribing' = is_transcribing
        /\ wake_word_detected' = wake_word_detected
        /\ use_wake_words' = use_wake_words

C17_InformationalEventsChangeNothing == [][InformationalStep]_vars

C17_Witness ==
    /\ hist = << "WakeWordDetected", "RecordingStarted", "Informational" >>
    /\ is_transcribing
    /\ wake_word_detected

(***************************************************************************)
(* C18.  Only a text with content produces a final transcript: when text() *)
(* returns an empty or blank text the loop prints no final transcription,  *)
(* counts nothing, does not sleep and calls text() again; the count of     *)
(* final transcripts never decreases and grows by exactly one for each     *)
(* text with content, and for nothing else.                                *)
(***************************************************************************)
FinalTranscriptStep ==
    /\ hist' = Append(hist, "Empty") =>
           /\ finals' = finals
           /\ sleeps' = sleeps
           /\ textCalls' = textCalls + 1
           /\ pc = "loop" /\ pc' = "loop"
    /\ hist' = Append(hist, "Final") => finals' = finals + 1
    /\ finals' # finals => hist' = Append(hist, "Final")

C18_OnlyContentIsFinal == [][FinalTranscriptStep]_vars

C18_Witness ==
    /\ TextHistory = << "Empty", "Empty", "Final" >>
    /\ finals = 1
    /\ sleeps = 0
    /\ textCalls = 3

(***************************************************************************)
(* C19.  The engine handle is only used while it is live: every call of    *)
(* text() is made on a handle whose construction succeeded and that is     *)
(* stored as self.recorder, and none after shutdown released it.           *)
(***************************************************************************)
TextCallStep ==
    textCalls' # textCalls =>
        /\ textCalls' = textCalls + 1
        /\ self_recorder \in ConstructedHandles
        /\ releases = 0
        /\ shutdownCalls = 0

C19_TextOnlyOnLiveHandle == [][TextCallStep]_vars

C19_Witness ==
    /\ textCalls = 2
    /\ self_recorder = OWW
    /\ releases = 1
    /\ pc = "done"

(***************************************************************************)
(* C20.  Each flag tracks the latest event of its own pair: is_transcribing*)
(* is true exactly when the latest of recording started / recording        *)
(* stopped was recording started, wake_word_detected exactly when the      *)
(* latest of wake word detected / wake word timeout was wake word          *)
(* detected, false when neither occurred; a final transcript resets        *)
(* neither.                                                                *)
(***************************************************************************)
LatestAmong(S) ==
    LET idx == {i \in 1..Len(hist) : hist[i] \in S}
    IN  IF idx = {} THEN "none"
        ELSE hist[CHOOSE i \in idx : \A j \in idx : j <= i]

C20_FlagsTrackLatestEvent ==
    /\ is_transcribing <=>
           LatestAmong({"RecordingStarted", "RecordingStopped"}) = "RecordingStarted"
    /\ wake_word_detected <=>
           LatestAmong({"WakeWordDetected", "WakeWordTimeout"}) = "WakeWordDetected"

\* A whole cycle, and the wake word flag is still set.
C20_Witness ==
    /\ hist = << "WakeWordDetected", "RecordingStarted", "RecordingStopped", "Final" >>
    /\ wake_word_detected
    /\ ~is_transcribing

====
